---- MODULE Spec2Model ----
(***************************************************************************)
(* Model of xla/tools/collective_perf_table_gen_main.cc: the launcher that *)
(* parses the collectives, step-spec and device-group flags, builds a      *)
(* CollectivePerfTableGen::Config, creates the generator, computes the     *)
(* table and dumps it.                                                     *)
(*                                                                         *)
(* Strings are sequences of one-character strings, so that splitting,      *)
(* key/value extraction and integer parsing work on characters as the code *)
(* does.  int64_t values are pairs (hi, lo) standing for hi * Base + lo    *)
(* with 0 <= lo < Base, because the usage example's sizes (2^31, 2^32) do  *)
(* not fit the model checker's native integers.                            *)
(***************************************************************************)
EXTENDS Integers, Sequences, FiniteSets, TLC

VARIABLES
    pc,                                \* position of main
    argv_ok,                           \* whether tsl::Flags::Parse accepts argv
    num_nodes,                         \* --num_nodes
    task_id,                           \* --task_id
    collectives_unparsed,              \* --collectives
    tensor_size_bytes_spec_unparsed,   \* --tensor_size_bytes_spec
    collective_devices_spec_unparsed,  \* --collective_devices_spec
    cfg,                               \* CollectivePerfTableGen::Config cfg
    gen,                               \* the generator: "null" or "created"
    mode,                              \* sweep mode chosen by ComputeTable
    tensor_size,                       \* current size of the sweep
    sizes,                             \* sizes measured so far (the profile's keys)
    dumped,                            \* whether Dump wrote the profiles
    exit_status,                       \* "running", "ok" (return 0) or "fatal"
    calls                              \* the calls main has made, in order

vars == <<pc, argv_ok, num_nodes, task_id, collectives_unparsed,
          tensor_size_bytes_spec_unparsed, collective_devices_spec_unparsed,
          cfg, gen, mode, tensor_size, sizes, dumped, exit_status, calls>>

(***************************************************************************)
(* Bounds of the model.                                                    *)
(***************************************************************************)
MaxCollectiveTokens == 3
MaxStepTokens == 3
MaxSegments == 3
MaxNodes == 2

(***************************************************************************)
(* int64_t arithmetic on (hi, lo) pairs.                                   *)
(***************************************************************************)
Base == 2^15

I64(n) == [hi |-> n \div Base, lo |-> n % Base]

Add(a, b) ==
    LET l == a.lo + b.lo
    IN  [hi |-> a.hi + b.hi + (l \div Base), lo |-> l % Base]

Mul(a, b) ==
    LET ll == a.lo * b.lo
    IN  [hi |-> a.hi * b.hi * Base + a.hi * b.lo + a.lo * b.hi + (ll \div Base),
         lo |-> ll % Base]

Neg(a) ==
    IF a.lo = 0 THEN [hi |-> -a.hi, lo |-> 0]
                ELSE [hi |-> -a.hi - 1, lo |-> Base - a.lo]

Lt(a, b) == a.hi < b.hi \/ (a.hi = b.hi /\ a.lo < b.lo)

Leq(a, b) == a = b \/ Lt(a, b)

(***************************************************************************)
(* Characters and the string literals of the source.                       *)
(***************************************************************************)
DigitChars == <<"0", "1", "2", "3", "4", "5", "6", "7", "8", "9">>

Digits == {DigitChars[i] : i \in 1..10}

DigitVal(c) == (CHOOSE i \in 1..10 : DigitChars[i] = c) - 1

Whitespace == {" "}

kAllReduce == <<"A", "L", "L", "_", "R", "E", "D", "U", "C", "E">>

kAllGather == <<"A", "L", "L", "_", "G", "A", "T", "H", "E", "R">>

kStart == <<"s", "t", "a", "r", "t">>

kStop == <<"s", "t", "o", "p">>

kFactor == <<"f", "a", "c", "t", "o", "r">>

kStep == <<"s", "t", "e", "p">>

kDefaultCoordinatorAddress == "127.0.0.1:1234"

kStdout == "stdout"

(***************************************************************************)
(* absl::StrSplit(text, delim): the pieces between the delimiters, empty   *)
(* pieces kept; the empty string splits into one empty piece.              *)
(***************************************************************************)
FindFirstOf(s, c) ==
    IF \E i \in 1..Len(s) : s[i] = c
    THEN (CHOOSE i \in 1..Len(s) : s[i] = c /\ \A j \in 1..(i - 1) : s[j] # c) - 1
    ELSE -1

RECURSIVE StrSplit(_, _)
StrSplit(s, d) ==
    LET p == FindFirstOf(s, d)
    IN  IF p = -1 THEN <<s>>
        ELSE <<SubSeq(s, 1, p)>> \o StrSplit(SubSeq(s, p + 2, Len(s)), d)

(***************************************************************************)
(* ExtractKV: CHECKs that the token holds '=' and that something follows   *)
(* it; key is what precedes the first '=', value what follows it.          *)
(***************************************************************************)
ExtractKV(token) ==
    LET delim_pos == FindFirstOf(token, "=")
    IN  IF delim_pos = -1 \/ ~(delim_pos + 1 < Len(token))
        THEN [ok |-> FALSE, key |-> <<>>, value |-> <<>>]
        ELSE [ok |-> TRUE,
              key |-> SubSeq(token, 1, delim_pos),
              value |-> SubSeq(token, delim_pos + 2, Len(token))]

(***************************************************************************)
(* absl::SimpleAtoi: surrounding whitespace is stripped, one optional sign *)
(* is read, and what remains must be one or more decimal digits.           *)
(* The library also refuses a value outside int64_t; the flag values of    *)
(* this model have at most ten digits, so that case does not arise here.   *)
(***************************************************************************)
RECURSIVE StripLeading(_)
StripLeading(s) ==
    IF s # <<>> /\ s[1] \in Whitespace THEN StripLeading(Tail(s)) ELSE s

RECURSIVE StripTrailing(_)
StripTrailing(s) ==
    IF s # <<>> /\ s[Len(s)] \in Whitespace
    THEN StripTrailing(SubSeq(s, 1, Len(s) - 1))
    ELSE s

RECURSIVE ParseDigits(_, _)
ParseDigits(s, acc) ==
    IF s = <<>> THEN acc
    ELSE ParseDigits(Tail(s), Add(Mul(acc, I64(10)), I64(DigitVal(s[1]))))

\* Mutant: the value is parsed into an int32_t, so 2^31 and above are refused.
SimpleAtoi_Int32(value) ==
    LET t == StripTrailing(StripLeading(value))
        negative == t # <<>> /\ t[1] = "-"
        signed == t # <<>> /\ t[1] \in {"-", "+"}
        body == IF signed THEN Tail(t) ELSE t
    IN  IF body = <<>> \/ \E i \in 1..Len(body) : body[i] \notin Digits
        THEN [ok |-> FALSE, val |-> I64(0)]
        ELSE IF ~negative /\ ParseDigits(body, I64(0)).hi >= 2^16
        THEN [ok |-> FALSE, val |-> I64(0)]
        ELSE [ok |-> TRUE,
              val |-> IF negative THEN Neg(ParseDigits(body, I64(0)))
                                  ELSE ParseDigits(body, I64(0))]

SimpleAtoi(value) ==
    LET t == StripTrailing(StripLeading(value))
        negative == t # <<>> /\ t[1] = "-"
        signed == t # <<>> /\ t[1] \in {"-", "+"}
        body == IF signed THEN Tail(t) ELSE t
    IN  IF body = <<>> \/ \E i \in 1..Len(body) : body[i] \notin Digits
        THEN [ok |-> FALSE, val |-> I64(0)]
        ELSE [ok |-> TRUE,
              val |-> IF negative THEN Neg(ParseDigits(body, I64(0)))
                                  ELSE ParseDigits(body, I64(0))]

(***************************************************************************)
(* ParseCollectives: CHECKs the flag is not empty, keeps the tokens that   *)
(* are exactly ALL_REDUCE or ALL_GATHER, and CHECKs that one was kept.     *)
(***************************************************************************)
\* Mutant: each kept type is put in front of the ones kept so far.
RECURSIVE CollectTypes_Prepend(_)
CollectTypes_Prepend(tokens) ==
    IF tokens = <<>> THEN <<>>
    ELSE IF Head(tokens) = kAllReduce
         THEN CollectTypes_Prepend(Tail(tokens)) \o <<"ALL_REDUCE">>
    ELSE IF Head(tokens) = kAllGather
         THEN CollectTypes_Prepend(Tail(tokens)) \o <<"ALL_GATHER">>
    ELSE CollectTypes_Prepend(Tail(tokens))

RECURSIVE CollectTypes(_)
CollectTypes(tokens) ==
    IF tokens = <<>> THEN <<>>
    ELSE IF Head(tokens) = kAllReduce
         THEN <<"ALL_REDUCE">> \o CollectTypes(Tail(tokens))
    ELSE IF Head(tokens) = kAllGather
         THEN <<"ALL_GATHER">> \o CollectTypes(Tail(tokens))
    ELSE CollectTypes(Tail(tokens))

\* Mutant: the CHECK_GT on the number of kept types is missing.
ParseCollectives_NoSizeCheck(unparsed) ==
    IF unparsed = <<>> THEN [ok |-> FALSE, types |-> <<>>]
    ELSE [ok |-> TRUE, types |-> CollectTypes(StrSplit(unparsed, ","))]

ParseCollectives(unparsed) ==
    LET types == CollectTypes(StrSplit(unparsed, ","))
    IN  IF unparsed = <<>> \/ ~(Len(types) > 0)
        THEN [ok |-> FALSE, types |-> <<>>]
        ELSE [ok |-> TRUE, types |-> types]

(***************************************************************************)
(* CollectivePerfTableGen::StepSpec.  A field is a value or unset; the     *)
(* default-constructed spec has no field set.                              *)
(***************************************************************************)
Unset == [set |-> FALSE, val |-> I64(0)]

Value(v) == [set |-> TRUE, val |-> v]

DefaultStepSpec == [start |-> Unset, stop |-> Unset, factor |-> Unset, step |-> Unset]

(***************************************************************************)
(* ParseStepSpec: every token goes through ExtractKV; the key selects the  *)
(* field, the value must pass SimpleAtoi; any other key is LOG(FATAL).     *)
(* A later token for the same key overwrites the earlier one.              *)
(***************************************************************************)
\* Mutant: a token with an unknown key is skipped instead of LOG(FATAL).
ApplyStepToken_SkipsUnknownKey(spec, token) ==
    LET kv == ExtractKV(token)
        num == SimpleAtoi(kv.value)
    IN  IF ~kv.ok THEN [ok |-> FALSE, spec |-> spec]
        ELSE IF kv.key = kStart
             THEN [ok |-> num.ok, spec |-> [spec EXCEPT !.start = Value(num.val)]]
        ELSE IF kv.key = kStop
             THEN [ok |-> num.ok, spec |-> [spec EXCEPT !.stop = Value(num.val)]]
        ELSE IF kv.key = kFactor
             THEN [ok |-> num.ok, spec |-> [spec EXCEPT !.factor = Value(num.val)]]
        ELSE IF kv.key = kStep
             THEN [ok |-> num.ok, spec |-> [spec EXCEPT !.step = Value(num.val)]]
        ELSE [ok |-> TRUE, spec |-> spec]

\* Mutant: the factor branch writes spec.step.
ApplyStepToken_FactorIntoStep(spec, token) ==
    LET kv == ExtractKV(token)
        num == SimpleAtoi(kv.value)
    IN  IF ~kv.ok THEN [ok |-> FALSE, spec |-> spec]
        ELSE IF kv.key = kStart
             THEN [ok |-> num.ok, spec |-> [spec EXCEPT !.start = Value(num.val)]]
        ELSE IF kv.key = kStop
             THEN [ok |-> num.ok, spec |-> [spec EXCEPT !.stop = Value(num.val)]]
        ELSE IF kv.key = kFactor \/ kv.key = kStep
             THEN [ok |-> num.ok, spec |-> [spec EXCEPT !.step = Value(num.val)]]
        ELSE [ok |-> FALSE, spec |-> spec]

ApplyStepToken(spec, token) ==
    LET kv == ExtractKV(token)
        num == SimpleAtoi(kv.value)
    IN  IF ~kv.ok THEN [ok |-> FALSE, spec |-> spec]
        ELSE IF kv.key = kStart
             THEN [ok |-> num.ok, spec |-> [spec EXCEPT !.start = Value(num.val)]]
        ELSE IF kv.key = kStop
             THEN [ok |-> num.ok, spec |-> [spec EXCEPT !.stop = Value(num.val)]]
        ELSE IF kv.key = kFactor
             THEN [ok |-> num.ok, spec |-> [spec EXCEPT !.factor = Value(num.val)]]
        ELSE IF kv.key = kStep
             THEN [ok |-> num.ok, spec |-> [spec EXCEPT !.step = Value(num.val)]]
        ELSE [ok |-> FALSE, spec |-> spec]

RECURSIVE ApplyStepTokens(_, _)
ApplyStepTokens(spec, tokens) ==
    IF tokens = <<>> THEN [ok |-> TRUE, spec |-> spec]
    ELSE LET r == ApplyStepToken(spec, Head(tokens))
         IN  IF r.ok THEN ApplyStepTokens(r.spec, Tail(tokens))
             ELSE [ok |-> FALSE, spec |-> DefaultStepSpec]

ParseStepSpec(unparsed) == ApplyStepTokens(DefaultStepSpec, StrSplit(unparsed, ","))

(***************************************************************************)
(* xla::ParseCollectiveDeviceListOnly.  The text is lexed into integers    *)
(* and punctuation.  "[g,n]<=[d1,...,dk]" with an optional "T(p1,...,pk)"  *)
(* is an iota replica group list; "{{a,b},{c,d}}" is an explicit list of   *)
(* groups, which has no iota form; anything else is a parse error.         *)
(***************************************************************************)
Punct == {"[", "]", "{", "}", "(", ")", ",", "T"}

IntTok(v) == [k |-> "int", c |-> "", n |-> v]

PunctTok(c) == [k |-> "punct", c |-> c, n |-> I64(0)]

BadTok == [k |-> "bad", c |-> "", n |-> I64(0)]

DigitRun(s) ==
    IF \E i \in 1..Len(s) : s[i] \notin Digits
    THEN (CHOOSE i \in 1..Len(s) :
              s[i] \notin Digits /\ \A j \in 1..(i - 1) : s[j] \in Digits) - 1
    ELSE Len(s)

RECURSIVE Lex(_)
Lex(s) ==
    IF s = <<>> THEN <<>>
    ELSE IF s[1] \in Whitespace THEN Lex(Tail(s))
    ELSE IF s[1] \in Digits
         THEN LET n == DigitRun(s)
              IN  <<IntTok(ParseDigits(SubSeq(s, 1, n), I64(0)))>>
                      \o Lex(SubSeq(s, n + 1, Len(s)))
    ELSE IF Len(s) >= 2 /\ s[1] = "<" /\ s[2] = "="
         THEN <<PunctTok("<=")>> \o Lex(SubSeq(s, 3, Len(s)))
    ELSE IF s[1] \in Punct THEN <<PunctTok(s[1])>> \o Lex(Tail(s))
    ELSE <<BadTok>>

IsPunct(t, i, c) == i <= Len(t) /\ t[i] = PunctTok(c)

IsInt(t, i) == i <= Len(t) /\ t[i].k = "int"

\* int (',' int)* starting at t[i]: the values and the index after them.
RECURSIVE IntList(_, _)
IntList(t, i) ==
    IF ~IsInt(t, i) THEN [ok |-> FALSE, vals |-> <<>>, next |-> i]
    ELSE IF IsPunct(t, i + 1, ",")
         THEN LET r == IntList(t, i + 2)
              IN  [ok |-> r.ok, vals |-> <<t[i].n>> \o r.vals, next |-> r.next]
    ELSE [ok |-> TRUE, vals |-> <<t[i].n>>, next |-> i + 1]

\* '{' ints '}' (',' '{' ints '}')* starting at t[i].
RECURSIVE GroupList(_, _)
GroupList(t, i) ==
    LET g == IntList(t, i + 1)
    IN  IF ~(IsPunct(t, i, "{") /\ g.ok /\ IsPunct(t, g.next, "}"))
        THEN [ok |-> FALSE, groups |-> <<>>, next |-> i]
        ELSE IF IsPunct(t, g.next + 1, ",")
             THEN LET r == GroupList(t, g.next + 2)
                  IN  [ok |-> r.ok, groups |-> <<g.vals>> \o r.groups, next |-> r.next]
        ELSE [ok |-> TRUE, groups |-> <<g.vals>>, next |-> g.next + 1]

NoDeviceList ==
    [ok |-> FALSE, iota |-> FALSE, dims |-> <<>>, reshape_dims |-> <<>>,
     transpose_perm |-> <<>>, groups |-> <<>>]

ParseIota(t) ==
    LET dims == IntList(t, 2)
        reshape == IntList(t, dims.next + 3)
        perm == IntList(t, reshape.next + 3)
        headOk == /\ IsPunct(t, 1, "[") /\ dims.ok /\ Len(dims.vals) = 2
                  /\ IsPunct(t, dims.next, "]") /\ IsPunct(t, dims.next + 1, "<=")
                  /\ IsPunct(t, dims.next + 2, "[") /\ reshape.ok
                  /\ IsPunct(t, reshape.next, "]")
        permOk == /\ IsPunct(t, reshape.next + 1, "T")
                  /\ IsPunct(t, reshape.next + 2, "(") /\ perm.ok
                  /\ IsPunct(t, perm.next, ")") /\ perm.next = Len(t)
    IN  IF headOk /\ reshape.next = Len(t)
        THEN [NoDeviceList EXCEPT !.ok = TRUE, !.iota = TRUE, !.dims = dims.vals,
                                  !.reshape_dims = reshape.vals]
        ELSE IF headOk /\ permOk
        THEN [NoDeviceList EXCEPT !.ok = TRUE, !.iota = TRUE, !.dims = dims.vals,
                                  !.reshape_dims = reshape.vals,
                                  !.transpose_perm = perm.vals]
        ELSE NoDeviceList

ParseExplicit(t) ==
    LET g == GroupList(t, 2)
    IN  IF IsPunct(t, 1, "{") /\ g.ok /\ IsPunct(t, g.next, "}") /\ g.next = Len(t)
        THEN [NoDeviceList EXCEPT !.ok = TRUE, !.groups = g.groups]
        ELSE NoDeviceList

ParseCollectiveDeviceListOnly(s) ==
    LET t == Lex(s)
    IN  IF IsPunct(t, 1, "{") THEN ParseExplicit(t) ELSE ParseIota(t)

(***************************************************************************)
(* GetCollectiveDeviceList: CHECK_OK on the parse, CHECK that the list has *)
(* an iota form; returns the iota replica group list.                      *)
(***************************************************************************)
GetCollectiveDeviceList(unparsed) ==
    LET collective_device_list == ParseCollectiveDeviceListOnly(unparsed)
    IN  IF ~collective_device_list.ok \/ ~collective_device_list.iota
        THEN [ok |-> FALSE, list |-> NoDeviceList]
        ELSE [ok |-> TRUE, list |-> collective_device_list]

(***************************************************************************)
(* GetCollectiveDeviceLists: one GetCollectiveDeviceList per ';' piece, in *)
(* order, the first failure being fatal; CHECKs the result is not empty.   *)
(***************************************************************************)
\* Mutant: each parsed list is put in front of the ones parsed so far.
RECURSIVE DeviceListsOf_Prepend(_)
DeviceListsOf_Prepend(tokens) ==
    IF tokens = <<>> THEN [ok |-> TRUE, lists |-> <<>>]
    ELSE LET r == GetCollectiveDeviceList(Head(tokens))
             rest == DeviceListsOf_Prepend(Tail(tokens))
         IN  IF r.ok /\ rest.ok
             THEN [ok |-> TRUE, lists |-> rest.lists \o <<r.list>>]
             ELSE [ok |-> FALSE, lists |-> <<>>]

\* Mutant: a segment that does not parse to an iota list is skipped.
RECURSIVE DeviceListsOf_SkipsBadSegment(_)
DeviceListsOf_SkipsBadSegment(tokens) ==
    IF tokens = <<>> THEN [ok |-> TRUE, lists |-> <<>>]
    ELSE LET r == GetCollectiveDeviceList(Head(tokens))
             rest == DeviceListsOf_SkipsBadSegment(Tail(tokens))
         IN  IF r.ok THEN [ok |-> TRUE, lists |-> <<r.list>> \o rest.lists]
             ELSE rest

RECURSIVE DeviceListsOf(_)
DeviceListsOf(tokens) ==
    IF tokens = <<>> THEN [ok |-> TRUE, lists |-> <<>>]
    ELSE LET r == GetCollectiveDeviceList(Head(tokens))
             rest == DeviceListsOf(Tail(tokens))
         IN  IF r.ok /\ rest.ok
             THEN [ok |-> TRUE, lists |-> <<r.list>> \o rest.lists]
             ELSE [ok |-> FALSE, lists |-> <<>>]

GetCollectiveDeviceLists(unparsed) ==
    LET device_lists == DeviceListsOf(StrSplit(unparsed, ";"))
    IN  IF ~device_lists.ok \/ ~(Len(device_lists.lists) > 0)
        THEN [ok |-> FALSE, lists |-> <<>>]
        ELSE device_lists

(***************************************************************************)
(* The sweep of CollectivePerfTableGen::ComputeTable over tensor sizes.    *)
(* With factor set the sweep is multiplicative, with step set additive,    *)
(* with neither it is the single size start; with both set the engine may  *)
(* take either as the meaningful one or refuse the spec.  The engine       *)
(* refuses a spec without start >= 1 and stop, and one whose step does not *)
(* advance (factor <= 1, step <= 0).                                       *)
(***************************************************************************)
SweepModes(spec) ==
    IF spec.factor.set /\ spec.step.set
    THEN {"multiplicative", "additive", "invalid"}
    ELSE IF spec.factor.set THEN {"multiplicative"}
    ELSE IF spec.step.set THEN {"additive"}
    ELSE {"degenerate"}

\* Mutant: the engine does not look at whether the step advances.
ValidSweep_NoAdvanceGuard(spec, m) ==
    /\ m # "invalid"
    /\ spec.start.set /\ spec.stop.set
    /\ Leq(I64(1), spec.start.val)

ValidSweep(spec, m) ==
    /\ m # "invalid"
    /\ spec.start.set /\ spec.stop.set
    /\ Leq(I64(1), spec.start.val)
    /\ m = "multiplicative" => Lt(I64(1), spec.factor.val)
    /\ m = "additive" => Lt(I64(0), spec.step.val)

NextSize(spec, m, size) ==
    IF m = "multiplicative" THEN Mul(size, spec.factor.val)
    ELSE Add(size, spec.step.val)

SweepLive(spec, m, size, done) ==
    IF m = "degenerate" THEN done = <<>> ELSE Leq(size, spec.stop.val)

(***************************************************************************)
(* main.                                                                   *)
(***************************************************************************)
InitialConfig ==
    [coordinator_address |-> "", num_nodes |-> 1, task_id |-> 0,
     collective_types |-> <<>>, tensor_size_bytes_spec |-> DefaultStepSpec,
     replica_groups_list |-> <<>>, output |-> ""]

flags == <<argv_ok, num_nodes, task_id, collectives_unparsed,
           tensor_size_bytes_spec_unparsed, collective_devices_spec_unparsed>>

\* A failed CHECK, LOG(FATAL) or LOG(QFATAL): the process dies where it is.
Abort(call) ==
    /\ pc' = "Aborted"
    /\ exit_status' = "fatal"
    /\ calls' = Append(calls, call)

Goto(next, call) ==
    /\ pc' = next
    /\ exit_status' = exit_status
    /\ calls' = Append(calls, call)

\* tsl::Flags::Parse: LOG(QFATAL) with the usage text when argv is rejected.
MainParseFlags ==
    /\ pc = "ParseFlags"
    /\ IF argv_ok THEN Goto("BuildConfig", "Flags::Parse")
                  ELSE Abort("Flags::Parse")
    /\ UNCHANGED <<flags, cfg, gen, mode, tensor_size, sizes, dumped>>

\* Mutant: cfg.task_id is left at its default.
MainBuildConfig_NoTaskId ==
    /\ pc = "BuildConfig"
    /\ cfg' = [cfg EXCEPT !.coordinator_address = kDefaultCoordinatorAddress,
                          !.num_nodes = num_nodes]
    /\ Goto("ParseCollectives", "Config")
    /\ UNCHANGED <<flags, gen, mode, tensor_size, sizes, dumped>>

\* cfg.coordinator_address, cfg.num_nodes and cfg.task_id are the flags.
MainBuildConfig ==
    /\ pc = "BuildConfig"
    /\ cfg' = [cfg EXCEPT !.coordinator_address = kDefaultCoordinatorAddress,
                          !.num_nodes = num_nodes,
                          !.task_id = task_id]
    /\ Goto("ParseCollectives", "Config")
    /\ UNCHANGED <<flags, gen, mode, tensor_size, sizes, dumped>>

MainParseCollectives ==
    /\ pc = "ParseCollectives"
    /\ LET r == ParseCollectives(collectives_unparsed)
       IN  IF r.ok
           THEN /\ cfg' = [cfg EXCEPT !.collective_types = r.types]
                /\ Goto("ParseStepSpec", "ParseCollectives")
           ELSE /\ cfg' = cfg
                /\ Abort("ParseCollectives")
    /\ UNCHANGED <<flags, gen, mode, tensor_size, sizes, dumped>>

\* Mutant: a step spec that fails to parse is replaced by the default spec.
MainParseStepSpec_IgnoresFailure ==
    /\ pc = "ParseStepSpec"
    /\ cfg' = [cfg EXCEPT !.tensor_size_bytes_spec =
                              ParseStepSpec(tensor_size_bytes_spec_unparsed).spec]
    /\ Goto("GetCollectiveDeviceLists", "ParseStepSpec")
    /\ UNCHANGED <<flags, gen, mode, tensor_size, sizes, dumped>>

MainParseStepSpec ==
    /\ pc = "ParseStepSpec"
    /\ LET r == ParseStepSpec(tensor_size_bytes_spec_unparsed)
       IN  IF r.ok
           THEN /\ cfg' = [cfg EXCEPT !.tensor_size_bytes_spec = r.spec]
                /\ Goto("GetCollectiveDeviceLists", "ParseStepSpec")
           ELSE /\ cfg' = cfg
                /\ Abort("ParseStepSpec")
    /\ UNCHANGED <<flags, gen, mode, tensor_size, sizes, dumped>>

MainGetCollectiveDeviceLists ==
    /\ pc = "GetCollectiveDeviceLists"
    /\ LET r == GetCollectiveDeviceLists(collective_devices_spec_unparsed)
       IN  IF r.ok
           THEN /\ cfg' = [cfg EXCEPT !.replica_groups_list = r.lists,
                                      !.output = kStdout]
                /\ Goto("Create", "GetCollectiveDeviceLists")
           ELSE /\ cfg' = cfg
                /\ Abort("GetCollectiveDeviceLists")
    /\ UNCHANGED <<flags, gen, mode, tensor_size, sizes, dumped>>

\* CollectivePerfTableGen::Create(cfg): the rendezvous with the peers may fail.
MainCreate ==
    /\ pc = "Create"
    /\ \E ok \in BOOLEAN :
           IF ok THEN gen' = "created" /\ Goto("ComputeTable", "Create")
                 ELSE gen' = gen /\ Abort("Create")
    /\ UNCHANGED <<flags, cfg, mode, tensor_size, sizes, dumped>>

\* gen->ComputeTable() starts: the step spec is validated, the sweep begins.
MainComputeTable ==
    /\ pc = "ComputeTable"
    /\ \E m \in SweepModes(cfg.tensor_size_bytes_spec) :
           /\ mode' = m
           /\ IF ValidSweep(cfg.tensor_size_bytes_spec, m)
              THEN /\ tensor_size' = cfg.tensor_size_bytes_spec.start.val
                   /\ Goto("Sweep", "ComputeTable")
              ELSE /\ tensor_size' = tensor_size
                   /\ Abort("ComputeTable")
    /\ UNCHANGED <<flags, cfg, gen, sizes, dumped>>

\* One size of the sweep is measured (or the run fails) and the size advances.
SweepStep ==
    /\ pc = "Sweep"
    /\ SweepLive(cfg.tensor_size_bytes_spec, mode, tensor_size, sizes)
    /\ \E ok \in BOOLEAN :
           IF ok
           THEN /\ sizes' = Append(sizes, tensor_size)
                /\ tensor_size' = NextSize(cfg.tensor_size_bytes_spec, mode, tensor_size)
                /\ UNCHANGED <<pc, exit_status, calls>>
           ELSE /\ UNCHANGED <<sizes, tensor_size>>
                /\ Abort("EngineError")
    /\ UNCHANGED <<flags, cfg, gen, mode, dumped>>

\* The sweep is over: ComputeTable returns the profiles.
SweepEnd ==
    /\ pc = "Sweep"
    /\ ~SweepLive(cfg.tensor_size_bytes_spec, mode, tensor_size, sizes)
    /\ pc' = "Dump"
    /\ UNCHANGED <<flags, cfg, gen, mode, tensor_size, sizes, dumped, exit_status, calls>>

\* CHECK_OK(gen->Dump(profiles)).
MainDump ==
    /\ pc = "Dump"
    /\ \E ok \in BOOLEAN :
           IF ok THEN dumped' = TRUE /\ Goto("Return", "Dump")
                 ELSE dumped' = dumped /\ Abort("Dump")
    /\ UNCHANGED <<flags, cfg, gen, mode, tensor_size, sizes>>

\* return 0.
MainReturn ==
    /\ pc = "Return"
    /\ pc' = "Done"
    /\ exit_status' = "ok"
    /\ UNCHANGED <<flags, cfg, gen, mode, tensor_size, sizes, dumped, calls>>

Next ==
    \/ MainParseFlags
    \/ MainBuildConfig
    \/ MainParseCollectives
    \/ MainParseStepSpec
    \/ MainGetCollectiveDeviceLists
    \/ MainCreate
    \/ MainComputeTable
    \/ SweepStep
    \/ SweepEnd
    \/ MainDump
    \/ MainReturn

(***************************************************************************)
(* Flag values the runs start from.                                        *)
(***************************************************************************)
RECURSIVE Join(_, _)
Join(tokens, d) ==
    IF Len(tokens) = 1 THEN tokens[1]
    ELSE tokens[1] \o <<d>> \o Join(Tail(tokens), d)

SeqsUpTo(S, n) == UNION {[1..k -> S] : k \in 1..n}

Str(key, value) == key \o <<"=">> \o value

kBogus == <<"B", "O", "G", "U", "S">>

CollectiveTokens ==
    {kAllReduce, kAllGather, kBogus, <<>>, <<" ">> \o kAllGather,
     <<"a", "l", "l", "_", "r", "e", "d", "u", "c", "e">>}

CollectiveInputs ==
    {Join(ts, ",") : ts \in SeqsUpTo(CollectiveTokens, MaxCollectiveTokens)}

StepTokens ==
    {Str(kStart, <<"1">>), Str(kStart, <<"2">>), Str(kStop, <<"8">>),
     Str(kFactor, <<"2">>), Str(kFactor, <<"1">>),
     Str(kStep, <<"3">>), Str(kStep, <<"0">>),
     kStart \o <<"1">>, Str(kStart, <<>>), Str(<<"b", "o", "g", "u", "s">>, <<"1">>),
     Str(kStop, <<"x">>), <<>>}

\* --tensor_size_bytes_spec='start=1024,stop=2147483648,factor=2'
kUsageStepSpec ==
    Join(<<Str(kStart, <<"1", "0", "2", "4">>),
           Str(kStop, <<"2", "1", "4", "7", "4", "8", "3", "6", "4", "8">>),
           Str(kFactor, <<"2">>)>>, ",")

\* "start=1,stop=8,factor=2 generates {1,2,4,8}"
kFlagHelpStepSpec ==
    Join(<<Str(kStart, <<"1">>), Str(kStop, <<"8">>), Str(kFactor, <<"2">>)>>, ",")

StepCorner(start, stop, key, value) ==
    Join(<<Str(kStart, start), Str(kStop, stop), Str(key, value)>>, ",")

StepCorners ==
    {kUsageStepSpec, kFlagHelpStepSpec,
     StepCorner(<<"0">>, <<"8">>, kFactor, <<"2">>),
     StepCorner(<<"-", "1">>, <<"8">>, kFactor, <<"2">>),
     StepCorner(<<"3">>, <<" ", "8", " ">>, kFactor, <<"+", "2">>),
     StepCorner(<<"5">>, <<"5">>, kFactor, <<"3">>),
     StepCorner(<<"9">>, <<"8">>, kFactor, <<"2">>),
     StepCorner(<<"1">>, <<"8">>, kFactor, <<"0">>),
     StepCorner(<<"1">>, <<"8">>, kFactor, <<"-", "2">>),
     StepCorner(<<"1">>, <<"8">>, kStep, <<"-", "1">>),
     StepCorner(<<"2">>, <<"8">>, kStep, <<"3">>),
     StepCorner(<<"1">>, <<"8">>, kStart, <<"1", "=", "2">>),
     StepCorner(<<"1">>, <<"8">>, <<>>, <<"5">>),
     StepCorner(<<"1">>, <<"8">>, <<" ">> \o kFactor, <<"2">>),
     kFlagHelpStepSpec \o <<",">>,
     kFlagHelpStepSpec \o <<",">> \o Str(kStep, <<"1">>)}

StepInputs ==
    {Join(ts, ",") : ts \in SeqsUpTo(StepTokens, MaxStepTokens)} \cup StepCorners

\* '[1,8]<=[8]'
kUsageDevices == <<"[", "1", ",", "8", "]", "<", "=", "[", "8", "]">>

kDevices24 == <<"[", "2", ",", "4", "]", "<", "=", "[", "4", "]">>

DeviceTokens ==
    {kUsageDevices, kDevices24,
     <<"[", "2", ",", "2", "]", "<", "=", "[", "2", ",", "2", "]",
       "T", "(", "1", ",", "0", ")">>,
     <<"{", "{", "0", ",", "1", "}", ",", "{", "2", ",", "3", "}", "}">>,
     <<"[", "8", "]", "<", "=", "[", "8", "]">>,
     <<"[", "1", ",", "8", "]", "<", "=">>,
     <<"[", "1", ",", "8", "]", " ", "<", "=", " ", "[", "8", "]">>,
     <<>>}

DeviceInputs ==
    {Join(ts, ";") : ts \in SeqsUpTo(DeviceTokens, MaxSegments)}

InitWith(C, S, D, N, T, A) ==
    /\ pc = "ParseFlags"
    /\ argv_ok \in A
    /\ num_nodes \in N
    /\ task_id \in T
    /\ collectives_unparsed \in C
    /\ tensor_size_bytes_spec_unparsed \in S
    /\ collective_devices_spec_unparsed \in D
    /\ cfg = InitialConfig
    /\ gen = "null"
    /\ mode = "none"
    /\ tensor_size = I64(0)
    /\ sizes = <<>>
    /\ dumped = FALSE
    /\ exit_status = "running"
    /\ calls = <<>>

\* The launcher as a whole: a few values of every flag.
Init ==
    InitWith({<<>>, kBogus, kAllReduce, Join(<<kAllReduce, kBogus, kAllGather>>, ",")},
             {<<>>, kStart \o <<"1">>, kFlagHelpStepSpec,
              StepCorner(<<"1">>, <<"8">>, kFactor, <<"1">>),
              StepCorner(<<"2">>, <<"8">>, kStep, <<"3">>)},
             {<<>>, kUsageDevices, Join(<<kUsageDevices, kDevices24>>, ";"),
              <<"{", "{", "0", ",", "1", "}", "}">>, kUsageDevices \o <<";">>},
             0..MaxNodes, -1..MaxNodes, BOOLEAN)

Spec == Init /\ [][Next]_vars

\* ParseCollectives over many --collectives values, the other flags as in the usage.
InitCollectives ==
    InitWith(CollectiveInputs, {kFlagHelpStepSpec}, {kUsageDevices}, {2}, {0}, {TRUE})

SpecCollectives == InitCollectives /\ [][Next]_vars

\* ParseStepSpec and the sweep over many --tensor_size_bytes_spec values.
InitStep ==
    InitWith({kAllReduce}, StepInputs, {kUsageDevices}, {2}, {0}, {TRUE})

SpecStep == InitStep /\ [][Next]_vars

\* GetCollectiveDeviceLists over many --collective_devices_spec values.
InitDevices ==
    InitWith({kAllReduce}, {kFlagHelpStepSpec}, DeviceInputs, {2}, {0}, {TRUE})

SpecDevices == InitDevices /\ [][Next]_vars

(***************************************************************************)
(* Vocabulary of the properties.                                           *)
(***************************************************************************)
Called(call) == \E i \in 1..Len(calls) : calls[i] = call

AbortedIn(call) == pc = "Aborted" /\ calls # <<>> /\ calls[Len(calls)] = call

Returned(call) == Called(call) /\ ~AbortedIn(call)

\* The pieces of s between delimiters d, stated by position: a piece starts
\* at 1 or right after a delimiter and runs up to the next delimiter or the end.
PieceStarts(s, d) == {i \in 1..(Len(s) + 1) : i = 1 \/ s[i - 1] = d}

PieceEnd(s, d, i) ==
    CHOOSE j \in i..(Len(s) + 1) :
        (j = Len(s) + 1 \/ s[j] = d) /\ \A k \in i..(j - 1) : s[k] # d

PieceAt(s, d, i) == SubSeq(s, i, PieceEnd(s, d, i) - 1)

Nth(S, k) == CHOOSE i \in S : Cardinality({j \in S : j < i}) = k - 1

KnownNames == {kAllReduce, kAllGather}

KnownStarts(s) == {i \in PieceStarts(s, ",") : PieceAt(s, ",", i) \in KnownNames}

TypeNamed(name) == IF name = kAllReduce THEN "ALL_REDUCE" ELSE "ALL_GATHER"

\* C1: a failure in any of the three parsers ends the process with a fatal
\* status before the engine exists, computes or dumps anything; exit code 0 is
\* returned only after the three parsers succeeded and Create, ComputeTable
\* and Dump were each called once, in that order.
C1_FailFastThenOrderedSuccess ==
    /\ \A call \in {"ParseCollectives", "ParseStepSpec", "GetCollectiveDeviceLists"} :
           AbortedIn(call) =>
               /\ exit_status = "fatal" /\ ~ENABLED Next
               /\ gen = "null" /\ sizes = <<>> /\ ~dumped
               /\ ~Called("Create") /\ ~Called("ComputeTable") /\ ~Called("Dump")
    /\ ~ParseCollectives(collectives_unparsed).ok
           => ~Called("ParseStepSpec") /\ exit_status # "ok"
    /\ ~ParseStepSpec(tensor_size_bytes_spec_unparsed).ok
           => ~Called("GetCollectiveDeviceLists") /\ exit_status # "ok"
    /\ ~GetCollectiveDeviceLists(collective_devices_spec_unparsed).ok
           => ~Called("Create") /\ exit_status # "ok"
    /\ exit_status = "ok" =>
           /\ calls = <<"Flags::Parse", "Config", "ParseCollectives", "ParseStepSpec",
                        "GetCollectiveDeviceLists", "Create", "ComputeTable", "Dump">>
           /\ gen = "created" /\ dumped

C1_Witness == exit_status = "ok" /\ dumped /\ Len(sizes) = 4

\* C2: when the collectives string holds a known name, ParseCollectives
\* returns one entry per piece that is exactly ALL_REDUCE or ALL_GATHER, in
\* the order of the pieces, and skips every other piece.
C2_KnownTokensInOrder ==
    (Called("ParseCollectives") /\ KnownStarts(collectives_unparsed) # {}) =>
        LET K == KnownStarts(collectives_unparsed)
            types == cfg.collective_types
        IN  /\ Returned("ParseCollectives")
            /\ Len(types) = Cardinality(K)
            /\ \A k \in 1..Len(types) :
                   types[k] = TypeNamed(PieceAt(collectives_unparsed, ",", Nth(K, k)))

C2_Witness ==
    /\ collectives_unparsed = Join(<<kAllReduce, kBogus, kAllGather>>, ",")
    /\ Returned("ParseCollectives")
    /\ cfg.collective_types = <<"ALL_REDUCE", "ALL_GATHER">>

\* C3: ParseCollectives never returns an empty list: an empty string, or one
\* without any known name, is fatal.
C3_NeverEmpty ==
    Called("ParseCollectives") =>
        IF collectives_unparsed = <<>> \/ KnownStarts(collectives_unparsed) = {}
        THEN AbortedIn("ParseCollectives") /\ cfg.collective_types = <<>>
        ELSE Len(cfg.collective_types) > 0

C3_Witness == collectives_unparsed = kBogus /\ AbortedIn("ParseCollectives")

\* An optionally signed run of digits, possibly surrounded by whitespace.
IsIntegerText(v) ==
    \E i \in 1..Len(v) : \E j \in i..Len(v) :
        /\ \A k \in 1..(i - 1) : v[k] \in Whitespace
        /\ \A k \in (j + 1)..Len(v) : v[k] \in Whitespace
        /\ \/ \A k \in i..j : v[k] \in Digits
           \/ v[i] \in {"+", "-"} /\ i < j /\ \A k \in (i + 1)..j : v[k] \in Digits

WellFormedStepToken(t) ==
    \E i \in 1..Len(t) :
        /\ t[i] = "=" /\ \A j \in 1..(i - 1) : t[j] # "="
        /\ i < Len(t)
        /\ SubSeq(t, 1, i - 1) \in {kStart, kStop, kFactor, kStep}
        /\ IsIntegerText(SubSeq(t, i + 1, Len(t)))

AllStepTokensWellFormed(s) ==
    \A i \in PieceStarts(s, ",") : WellFormedStepToken(PieceAt(s, ",", i))

\* C4: ParseStepSpec returns only when every comma-separated token is
\* key=value with a key among start, stop, factor, step and an integer value;
\* any other token is fatal and leaves no spec behind.
C4_MalformedTokenIsFatal ==
    /\ Returned("ParseStepSpec") =>
           AllStepTokensWellFormed(tensor_size_bytes_spec_unparsed)
    /\ (Called("ParseStepSpec")
            /\ ~AllStepTokensWellFormed(tensor_size_bytes_spec_unparsed)) =>
           /\ AbortedIn("ParseStepSpec")
           /\ cfg.tensor_size_bytes_spec = DefaultStepSpec

C4_Witness ==
    /\ tensor_size_bytes_spec_unparsed =
           Join(<<Str(kStart, <<"1">>), kStart \o <<"1">>>>, ",")
    /\ AbortedIn("ParseStepSpec")

NonAdvancing(spec, m) ==
    \/ m = "multiplicative" /\ Leq(spec.factor.val, I64(1))
    \/ m = "additive" /\ Leq(spec.step.val, I64(0))

Sub(a, b) == Add(a, Neg(b))

\* The number of sizes the sweep still has to visit, at most.
Remaining ==
    IF mode = "degenerate" THEN I64(1 - Len(sizes))
    ELSE Add(Sub(cfg.tensor_size_bytes_spec.stop.val, tensor_size), I64(1))

RefusesNonAdvancing ==
    (Called("ComputeTable") /\ NonAdvancing(cfg.tensor_size_bytes_spec, mode))
        => AbortedIn("ComputeTable") /\ sizes = <<>>

C6_Original ==
    Called("Create") =>
        cfg.num_nodes >= 1 /\ 0 <= cfg.task_id /\ cfg.task_id < cfg.num_nodes

\* C6: the config given to the engine carries --num_nodes and --task_id as
\* they were given, unvalidated: it is in range exactly when the flags are.
C6_ConfigCarriesFlags ==
    Called("Create") => cfg.num_nodes = num_nodes /\ cfg.task_id = task_id

C6_Witness == gen = "created" /\ cfg.task_id = 1 /\ cfg.num_nodes = 2

RECURSIVE Pow(_, _)
Pow(b, k) == IF k = 0 THEN I64(1) ELSE Mul(b, Pow(b, k - 1))

SweepFinished == pc \in {"Dump", "Return", "Done"} \/ AbortedIn("Dump")

\* C7: a multiplicative sweep with start >= 1, factor > 1 and start <= stop
\* is start, start*factor, start*factor^2, ..., strictly increasing, up to the
\* largest such value <= stop; start=1,stop=8,factor=2 gives 1,2,4,8 and
\* start = stop gives one size.
C7_MultiplicativeSweep ==
    LET spec == cfg.tensor_size_bytes_spec
        start == spec.start.val
        stop == spec.stop.val
        factor == spec.factor.val
    IN  /\ (Called("ComputeTable") /\ mode = "multiplicative" /\ spec.start.set
                /\ spec.stop.set /\ Leq(I64(1), start) /\ Lt(I64(1), factor)
                /\ Leq(start, stop)) =>
               /\ ~AbortedIn("ComputeTable")
               /\ \A k \in 1..Len(sizes) :
                      sizes[k] = Mul(start, Pow(factor, k - 1)) /\ Leq(sizes[k], stop)
               /\ \A k \in 1..(Len(sizes) - 1) : Lt(sizes[k], sizes[k + 1])
               /\ SweepFinished =>
                      /\ Len(sizes) >= 1 /\ sizes[1] = start
                      /\ Lt(stop, Mul(sizes[Len(sizes)], factor))
                      /\ start = stop => Len(sizes) = 1
        /\ (tensor_size_bytes_spec_unparsed = kFlagHelpStepSpec /\ Called("ComputeTable")) =>
               /\ mode = "multiplicative" /\ ~AbortedIn("ComputeTable")
               /\ SweepFinished => sizes = <<I64(1), I64(2), I64(4), I64(8)>>

C7_Witness ==
    /\ tensor_size_bytes_spec_unparsed = kFlagHelpStepSpec
    /\ pc = "Done"
    /\ sizes = <<I64(1), I64(2), I64(4), I64(8)>>

Two31 == Mul(I64(2^16), I64(2^15))

UsageSweepIs(n) ==
    /\ Len(sizes) = n
    /\ sizes[1] = I64(1024)
    /\ \A k \in 1..(Len(sizes) - 1) : sizes[k + 1] = Mul(sizes[k], I64(2))
    /\ sizes[Len(sizes)] = Two31

UsageSpecParsed ==
    /\ Returned("ParseStepSpec")
    /\ cfg.tensor_size_bytes_spec =
           [start |-> Value(I64(1024)), stop |-> Value(Two31),
            factor |-> Value(I64(2)), step |-> Unset]

\* C8 as stated: the usage example's sweep 1024, ..., 2147483648 has 21 sizes.
C8_Original ==
    tensor_size_bytes_spec_unparsed = kUsageStepSpec =>
        /\ Called("ParseStepSpec") => UsageSpecParsed
        /\ SweepFinished => UsageSweepIs(21)

\* C8: "start=1024,stop=2147483648,factor=2" parses to start 1024, stop
\* 2147483648, factor 2 and expands to 1024, 2048, ..., 2147483648, which is
\* 22 sizes (2^10 up to 2^31).
C8_UsageSweepHas22Sizes ==
    tensor_size_bytes_spec_unparsed = kUsageStepSpec =>
        /\ Called("ParseStepSpec") => UsageSpecParsed
        /\ SweepFinished => UsageSweepIs(22)

C8_Witness ==
    /\ tensor_size_bytes_spec_unparsed = kUsageStepSpec
    /\ pc = "Done"
    /\ Len(sizes) = 22

IsIotaSegment(t) ==
    ParseCollectiveDeviceListOnly(t).ok /\ ParseCollectiveDeviceListOnly(t).iota

AllSegmentsIota(s) ==
    \A i \in PieceStarts(s, ";") : IsIotaSegment(PieceAt(s, ";", i))

\* C9: when every ';' segment parses to an iota replica group list,
\* GetCollectiveDeviceLists returns one list per segment, the k-th being the
\* parse of the k-th segment; "[1,8]<=[8]" gives one list and
\* "[1,8]<=[8];[2,4]<=[4]" two.
C9_OneListPerSegmentInOrder ==
    LET s == collective_devices_spec_unparsed
        lists == cfg.replica_groups_list
    IN  /\ (Called("GetCollectiveDeviceLists") /\ AllSegmentsIota(s)) =>
               /\ Returned("GetCollectiveDeviceLists")
               /\ Len(lists) = Cardinality(PieceStarts(s, ";"))
               /\ \A k \in 1..Len(lists) :
                      lists[k] = ParseCollectiveDeviceListOnly(
                                     PieceAt(s, ";", Nth(PieceStarts(s, ";"), k)))
        /\ (Called("GetCollectiveDeviceLists") /\ s = kUsageDevices) =>
               Len(lists) = 1 /\ lists[1].dims = <<I64(1), I64(8)>>
        /\ (Called("GetCollectiveDeviceLists")
                /\ s = Join(<<kUsageDevices, kDevices24>>, ";")) =>
               /\ Len(lists) = 2
               /\ lists[1].dims = <<I64(1), I64(8)>>
               /\ lists[2].dims = <<I64(2), I64(4)>>

C9_Witness ==
    /\ collective_devices_spec_unparsed = Join(<<kDevices24, kUsageDevices>>, ";")
    /\ Returned("GetCollectiveDeviceLists")
    /\ Len(cfg.replica_groups_list) = 2
    /\ cfg.replica_groups_list[1].dims = <<I64(2), I64(4)>>

\* C10: GetCollectiveDeviceLists is fatal and returns nothing as soon as one
\* segment fails to parse or has no iota form, the empty spec included; every
\* list it returns is non-empty and holds no skipped segment.
C10_AnyBadSegmentIsFatal ==
    LET s == collective_devices_spec_unparsed
    IN  /\ (Called("GetCollectiveDeviceLists") /\ ~AllSegmentsIota(s)) =>
               /\ AbortedIn("GetCollectiveDeviceLists")
               /\ cfg.replica_groups_list = <<>>
        /\ (Called("GetCollectiveDeviceLists") /\ s = <<>>) =>
               AbortedIn("GetCollectiveDeviceLists")
        /\ Returned("GetCollectiveDeviceLists") =>
               /\ Len(cfg.replica_groups_list) > 0
               /\ Len(cfg.replica_groups_list) = Cardinality(PieceStarts(s, ";"))

C10_Witness ==
    /\ collective_devices_spec_unparsed =
           Join(<<kUsageDevices,
                  <<"{", "{", "0", ",", "1", "}", ",", "{", "2", ",", "3", "}", "}">>>>, ";")
    /\ AbortedIn("GetCollectiveDeviceLists")

====
